---- MODULE Spec2Model ----
(***************************************************************************)
(* The multibox codec of ssb-multiformats (src/src/multibox.rs): the       *)
(* legacy text encoding  <base64(payload)>.box"  and the compact binary    *)
(* encoding  0x00 <varu64(len)> <payload>,  with their decoders.           *)
(*                                                                         *)
(* Bytes are the integers 0..255, byte strings are sequences of them.  A   *)
(* u64 is kept as its eight big-endian bytes, so that every value of the   *)
(* length field is represented exactly.                                    *)
(***************************************************************************)
EXTENDS Integers, Sequences, FiniteSets

VARIABLES usizeBits, pc, op, arg, res, mb, enc, w, calls, wres, tail

vars == <<usizeBits, pc, op, arg, res, mb, enc, w, calls, wres, tail>>

(***************************************************************************)
(* Bounds of the model.                                                    *)
(***************************************************************************)
MaxDataLen == 4
MaxTailLen == 2
MaxRestLen == 3
MaxCap == 5

(***************************************************************************)
(* Generic helpers on byte strings.                                        *)
(***************************************************************************)
SeqsUpTo(S, n) == UNION {[1..k -> S] : k \in 0..n}

Drop(s, n) == SubSeq(s, n + 1, Len(s))

Take(s, n) == SubSeq(s, 1, n)

None == [some |-> FALSE, fst |-> <<>>, snd |-> <<>>]

Some(a, b) == [some |-> TRUE, fst |-> a, snd |-> b]

(***************************************************************************)
(* The two slice helpers of the crate root that from_legacy calls.         *)
(***************************************************************************)
\* The split is at the lowest index that holds the byte, which is dropped.
split_at_byte(s, byte) ==
    LET found == {i \in 1..Len(s) : s[i] = byte} IN
    IF found = {} THEN None
    ELSE LET i == CHOOSE k \in found : \A j \in found : k <= j
         IN  Some(Take(s, i - 1), Drop(s, i))

skip_prefix(s, prefix) ==
    IF Len(s) >= Len(prefix) /\ Take(s, Len(prefix)) = prefix
    THEN Some(Drop(s, Len(prefix)), <<>>)
    ELSE None

(***************************************************************************)
(* The base64 engine (external crate): standard alphabet, '=' padding.     *)
(* Encoding always pads.  Decoding accepts absent or partial padding (the  *)
(* engine is lenient there) but rejects a last symbol whose unused bits    *)
(* are not zero, as the repository's test of "lB==" requires.              *)
(***************************************************************************)
B64Sym(i) ==
    IF i < 26 THEN 65 + i
    ELSE IF i < 52 THEN 97 + (i - 26)
    ELSE IF i < 62 THEN 48 + (i - 52)
    ELSE IF i = 62 THEN 43 ELSE 47

B64Val(c) ==
    IF c >= 65 /\ c <= 90 THEN c - 65
    ELSE IF c >= 97 /\ c <= 122 THEN c - 97 + 26
    ELSE IF c >= 48 /\ c <= 57 THEN c - 48 + 52
    ELSE IF c = 43 THEN 62
    ELSE IF c = 47 THEN 63 ELSE -1

\* Symbol k of the text: group g of three bytes gives four symbols, and a
\* group that is cut short is filled with '='.
base64_encode(bs) ==
    LET n == Len(bs)
        at(i) == IF i <= n THEN bs[i] ELSE 0
        sym(k) ==
            LET g == (k - 1) \div 4
                b1 == at(3 * g + 1)
                b2 == at(3 * g + 2)
                b3 == at(3 * g + 3)
            IN  CASE (k - 1) % 4 = 0 -> B64Sym(b1 \div 4)
                  [] (k - 1) % 4 = 1 -> B64Sym((b1 % 4) * 16 + b2 \div 16)
                  [] (k - 1) % 4 = 2 ->
                        IF 3 * g + 2 > n THEN 61
                        ELSE B64Sym((b2 % 16) * 4 + b3 \div 64)
                  [] OTHER -> IF 3 * g + 3 > n THEN 61 ELSE B64Sym(b3 % 64)
    IN  [k \in 1..(4 * ((n + 2) \div 3)) |-> sym(k)]

\* The number of '=' bytes that end s.
PadCount(s) ==
    LET symbols == {i \in 1..Len(s) : s[i] # 61} IN
    IF symbols = {} THEN Len(s)
    ELSE Len(s) - (CHOOSE k \in symbols : \A j \in symbols : j <= k)

\* The bytes of a run of symbol values whose length is not 1 modulo 4: four
\* values give three bytes, a last two give one, a last three give two.
DecodeSyms(v) ==
    LET m == Len(v)
        n == (m \div 4) * 3 + (IF m % 4 = 2 THEN 1 ELSE IF m % 4 = 3 THEN 2 ELSE 0)
        byte(k) ==
            LET g == (k - 1) \div 3
            IN  CASE (k - 1) % 3 = 0 -> v[4 * g + 1] * 4 + v[4 * g + 2] \div 16
                  [] (k - 1) % 3 = 1 ->
                        (v[4 * g + 2] % 16) * 16 + v[4 * g + 3] \div 4
                  [] OTHER -> (v[4 * g + 3] % 4) * 64 + v[4 * g + 4]
    IN  [k \in 1..n |-> byte(k)]

TrailingBits(v) ==
    IF Len(v) % 4 = 2 THEN v[Len(v)] % 16
    ELSE IF Len(v) % 4 = 3 THEN v[Len(v)] % 4
    ELSE 0

B64Ok(bytes) == [ok |-> TRUE, bytes |-> bytes, cause |-> <<>>]

B64Err(kind) == [ok |-> FALSE, bytes |-> <<>>, cause |-> <<kind>>]

base64_decode(data) ==
    LET n == Len(data)
        npad == PadCount(data)
        syms == Take(data, n - npad)
        vals == [i \in 1..Len(syms) |-> B64Val(syms[i])]
    IN  IF n % 4 = 1 THEN
            IF data[n] # 61 /\ B64Val(data[n]) = -1
            THEN B64Err("InvalidByte") ELSE B64Err("InvalidLength")
        ELSE IF \E i \in 1..Len(syms) : vals[i] = -1 THEN B64Err("InvalidByte")
        ELSE IF \E i \in (Len(syms) + 1)..n : (i - 1) % 4 < 2
            THEN B64Err("InvalidByte")
        ELSE IF TrailingBits(vals) # 0 THEN B64Err("InvalidLastSymbol")
        ELSE B64Ok(DecodeSyms(vals))

(***************************************************************************)
(* Results of the decoders: Ok((Multibox, rest)), Err(e) or a panic.       *)
(* cause is the wrapped engine error (<<>> when the variant wraps none).   *)
(***************************************************************************)
Ok(bytes, rest) ==
    [kind |-> "Ok", err |-> "", cause |-> <<>>, box |-> bytes, rest |-> rest]

Err(e, cause) ==
    [kind |-> "Err", err |-> e, cause |-> cause, box |-> <<>>, rest |-> <<>>]

Panic == [kind |-> "Panic", err |-> "", cause |-> <<>>, box |-> <<>>, rest |-> <<>>]

NoRes == [kind |-> "None", err |-> "", cause |-> <<>>, box |-> <<>>, rest |-> <<>>]

DOT == 46

QUOTE == 34

BoxSuffix == <<98, 111, 120>>

DotBox == <<46, 98, 111, 120>>

(***************************************************************************)
(* Multibox::from_legacy                                                   *)
(***************************************************************************)
\* Faulty variants of from_legacy, to show that the properties below tell
\* them from the code: without the length check; decoding the text before the
\* suffix is looked at; without the check for bytes between "box" and the quote.
from_legacy_nocanon(s) ==
    LET d == split_at_byte(s, DOT) IN
    IF ~d.some THEN Err("NoDot", <<>>)
    ELSE LET t == skip_prefix(d.snd, BoxSuffix) IN
    IF ~t.some THEN Err("UnknownSuffix", <<>>)
    ELSE LET q == split_at_byte(t.fst, QUOTE) IN
    IF ~q.some THEN Err("NoTerminatingQuote", <<>>)
    ELSE IF Len(q.fst) # 0 THEN Err("UnknownSuffix", <<>>)
    ELSE LET r == base64_decode(d.fst) IN
    IF r.ok THEN Ok(r.bytes, q.snd)
    ELSE Err("InvalidBase64", r.cause)

from_legacy_base64_first(s) ==
    LET d == split_at_byte(s, DOT) IN
    IF ~d.some THEN Err("NoDot", <<>>)
    ELSE LET r == base64_decode(d.fst) IN
    IF ~r.ok THEN Err("InvalidBase64", r.cause)
    ELSE IF Len(d.fst) % 4 # 0 THEN Err("NoncanonicPadding", <<>>)
    ELSE LET t == skip_prefix(d.snd, BoxSuffix) IN
    IF ~t.some THEN Err("UnknownSuffix", <<>>)
    ELSE LET q == split_at_byte(t.fst, QUOTE) IN
    IF ~q.some THEN Err("NoTerminatingQuote", <<>>)
    ELSE IF Len(q.fst) # 0 THEN Err("UnknownSuffix", <<>>)
    ELSE Ok(r.bytes, q.snd)

from_legacy_any_suffix(s) ==
    LET d == split_at_byte(s, DOT) IN
    IF ~d.some THEN Err("NoDot", <<>>)
    ELSE LET t == skip_prefix(d.snd, BoxSuffix) IN
    IF ~t.some THEN Err("UnknownSuffix", <<>>)
    ELSE LET q == split_at_byte(t.fst, QUOTE) IN
    IF ~q.some THEN Err("NoTerminatingQuote", <<>>)
    ELSE LET r == base64_decode(d.fst) IN
    IF r.ok THEN
        IF Len(d.fst) % 4 # 0 THEN Err("NoncanonicPadding", <<>>)
        ELSE Ok(r.bytes, q.snd)
    ELSE Err("InvalidBase64", r.cause)

from_legacy(s) ==
    LET d == split_at_byte(s, DOT) IN
    IF ~d.some THEN Err("NoDot", <<>>)
    ELSE LET t == skip_prefix(d.snd, BoxSuffix) IN
    IF ~t.some THEN Err("UnknownSuffix", <<>>)
    ELSE LET q == split_at_byte(t.fst, QUOTE) IN
    IF ~q.some THEN Err("NoTerminatingQuote", <<>>)
    ELSE IF Len(q.fst) # 0 THEN Err("UnknownSuffix", <<>>)
    ELSE LET r == base64_decode(d.fst) IN
    IF r.ok THEN
        IF Len(d.fst) % 4 # 0 THEN Err("NoncanonicPadding", <<>>)
        ELSE Ok(r.bytes, q.snd)
    ELSE Err("InvalidBase64", r.cause)

(***************************************************************************)
(* The output sink, a std::io::Write.  A limited sink takes cap bytes in   *)
(* all; write_all puts what still fits and then fails with the sink's      *)
(* error.  A Vec<u8> is the unlimited sink.  An encoder's run is the sink  *)
(* after it, the chunks it handed to write_all, and its result.            *)
(***************************************************************************)
IoErrors == {"WriteZero", "BrokenPipe"}

Vec == [buf |-> <<>>, limited |-> FALSE, cap |-> 0, err |-> "WriteZero"]

Sinks == {Vec} \cup
    {[buf |-> <<>>, limited |-> TRUE, cap |-> c, err |-> e] :
        c \in 0..MaxCap, e \in IoErrors}

IoOk == [kind |-> "Ok", err |-> ""]

IoErr(e) == [kind |-> "Err", err |-> e]

IoPanic == [kind |-> "Panic", err |-> ""]

Fits(sink, chunk) == ~sink.limited \/ Len(sink.buf) + Len(chunk) <= sink.cap

write_all(sink, chunk) ==
    IF Fits(sink, chunk)
    THEN [w |-> [sink EXCEPT !.buf = @ \o chunk], r |-> IoOk]
    ELSE [w |-> [sink EXCEPT !.buf = @ \o Take(chunk, sink.cap - Len(@))],
          r |-> IoErr(sink.err)]

Run(sink, chunks, r) == [w |-> sink, calls |-> chunks, r |-> r]

(***************************************************************************)
(* Multibox::to_legacy, to_legacy_vec, to_legacy_string                    *)
(***************************************************************************)
\* Faulty variants of to_legacy: the text without its padding; a quote
\* written after the suffix.
to_legacy_unpadded(bytes, sink) ==
    LET full == base64_encode(bytes)
        data == Take(full, Len(full) - PadCount(full))
        w1 == write_all(sink, data)
    IN  IF w1.r.kind # "Ok" THEN Run(w1.w, <<data>>, w1.r)
        ELSE LET w2 == write_all(w1.w, DotBox)
             IN  Run(w2.w, <<data, DotBox>>, w2.r)

to_legacy_quoted(bytes, sink) ==
    LET data == base64_encode(bytes)
        w1 == write_all(sink, data)
    IN  IF w1.r.kind # "Ok" THEN Run(w1.w, <<data>>, w1.r)
        ELSE LET w2 == write_all(w1.w, DotBox \o <<QUOTE>>)
             IN  Run(w2.w, <<data, DotBox \o <<QUOTE>>>>, w2.r)

to_legacy(bytes, sink) ==
    LET data == base64_encode(bytes)
        w1 == write_all(sink, data)
    IN  IF w1.r.kind # "Ok" THEN Run(w1.w, <<data>>, w1.r)
        ELSE LET w2 == write_all(w1.w, DotBox)
             IN  Run(w2.w, <<data, DotBox>>, w2.r)

\* .unwrap() panics on Err; the vector is what was written.
to_legacy_vec(bytes) ==
    LET run == to_legacy(bytes, Vec)
    IN  IF run.r.kind = "Ok" THEN run ELSE Run(run.w, run.calls, IoPanic)

IsAscii(s) == \A i \in 1..Len(s) : s[i] < 128

\* String::from_utf8_unchecked: the bytes as they are; undefined behaviour
\* when they are not valid text, whose outcomes are left open.
to_legacy_string(bytes) ==
    LET run == to_legacy_vec(bytes)
    IN  IF run.r.kind # "Ok" THEN {run}
        ELSE IF IsAscii(run.w.buf) THEN {run}
        ELSE {Run(run.w, run.calls, [kind |-> k, err |-> ""]) : k \in {"Ok", "UB"}}

(***************************************************************************)
(* The varu64 engine (external crate).  A value below 248 is one byte;     *)
(* otherwise the first byte 247 + k announces k big-endian bytes, and the  *)
(* value must need all k of them.                                          *)
(***************************************************************************)
U64Of(n) == <<0, 0, 0, 0, 0, n \div 65536, (n \div 256) % 256, n % 256>>

RECURSIVE Significant(_)
Significant(v) ==
    IF Len(v) > 0 /\ v[1] = 0 THEN Significant(Drop(v, 1)) ELSE v

length_of_encoding(v) ==
    IF Len(Significant(v)) <= 1 /\ v[8] < 248 THEN 1
    ELSE Len(Significant(v)) + 1

VarOk(v, rest) == [ok |-> TRUE, val |-> v, tail |-> rest, cause |-> <<>>]

VarErr(cause, rest) == [ok |-> FALSE, val |-> U64Of(0), tail |-> rest, cause |-> cause]

varu64_decode(input) ==
    IF Len(input) = 0 THEN VarErr(<<"UnexpectedEndOfInput">>, input)
    ELSE IF input[1] >= 248 THEN
        LET length == (input[1] - 248) + 2
            out == [i \in 1..(9 - length) |-> 0] \o SubSeq(input, 2, length)
        IN  IF Len(input) < length
            THEN VarErr(<<"UnexpectedEndOfInput">>, <<>>)
            ELSE IF length > length_of_encoding(out)
            THEN VarErr(<<"NonCanonical", out>>, Drop(input, length))
            ELSE VarOk(out, Drop(input, length))
    ELSE VarOk(U64Of(input[1]), Drop(input, 1))

varu64_encode(v) ==
    IF length_of_encoding(v) = 1 THEN <<v[8]>>
    ELSE <<247 + Len(Significant(v))>> \o Significant(v)

\* varu64::encode_write: the encoding in one write_all.
encode_write(v, sink) == write_all(sink, varu64_encode(v))

(***************************************************************************)
(* `len as usize`: the low usizeBits bits of the u64.  ToNat is the value  *)
(* as a number, exact below 2^24 and 2^24 for everything above, which is   *)
(* more than any buffer of the model holds.                                *)
(***************************************************************************)
AsUsize(v, bits) == [i \in 1..8 |-> IF i <= 8 - bits \div 8 THEN 0 ELSE v[i]]

ToNat(v) ==
    IF \A i \in 1..5 : v[i] = 0
    THEN v[6] * 65536 + v[7] * 256 + v[8]
    ELSE 16777216

(***************************************************************************)
(* Multibox::from_compact                                                  *)
(***************************************************************************)
\* Faulty variants of from_compact: the remainder not advanced past the
\* payload; both fields decoded before the type is looked at; the length
\* field's error reported as the type field's.
from_compact_rest_kept(s, bits) ==
    LET t == varu64_decode(s) IN
    IF ~t.ok THEN Err("InvalidType", t.cause)
    ELSE IF t.val # U64Of(0) THEN Panic
    ELSE LET l == varu64_decode(t.tail) IN
    IF ~l.ok THEN Err("InvalidLength", l.cause)
    ELSE LET n == ToNat(AsUsize(l.val, bits)) IN
    IF Len(l.tail) < n THEN Err("NotEnoughInput", <<>>)
    ELSE Ok(Take(l.tail, n), l.tail)

from_compact_length_first(s, bits) ==
    LET t == varu64_decode(s) IN
    IF ~t.ok THEN Err("InvalidType", t.cause)
    ELSE LET l == varu64_decode(t.tail) IN
    IF ~l.ok THEN Err("InvalidLength", l.cause)
    ELSE IF t.val # U64Of(0) THEN Panic
    ELSE LET n == ToNat(AsUsize(l.val, bits)) IN
    IF Len(l.tail) < n THEN Err("NotEnoughInput", <<>>)
    ELSE Ok(Take(l.tail, n), Drop(l.tail, n))

from_compact_one_error(s, bits) ==
    LET t == varu64_decode(s) IN
    IF ~t.ok THEN Err("InvalidType", t.cause)
    ELSE IF t.val # U64Of(0) THEN Panic
    ELSE LET l == varu64_decode(t.tail) IN
    IF ~l.ok THEN Err("InvalidType", l.cause)
    ELSE LET n == ToNat(AsUsize(l.val, bits)) IN
    IF Len(l.tail) < n THEN Err("NotEnoughInput", <<>>)
    ELSE Ok(Take(l.tail, n), Drop(l.tail, n))

from_compact(s, bits) ==
    LET t == varu64_decode(s) IN
    IF ~t.ok THEN Err("InvalidType", t.cause)
    ELSE IF t.val # U64Of(0) THEN Panic
    ELSE LET l == varu64_decode(t.tail) IN
    IF ~l.ok THEN Err("InvalidLength", l.cause)
    ELSE LET n == ToNat(AsUsize(l.val, bits)) IN
    IF Len(l.tail) < n THEN Err("NotEnoughInput", <<>>)
    ELSE Ok(Take(l.tail, n), Drop(l.tail, n))

(***************************************************************************)
(* Multibox::to_compact                                                    *)
(***************************************************************************)
\* Faulty variant of to_compact: the result of the first write is dropped.
to_compact_unchecked(bytes, sink) ==
    LET len == varu64_encode(U64Of(Len(bytes)))
        w1 == write_all(sink, <<0>>)
        w2 == encode_write(U64Of(Len(bytes)), w1.w)
    IN  IF w2.r.kind # "Ok" THEN Run(w2.w, <<(<<0>>), len>>, w2.r)
        ELSE LET w3 == write_all(w2.w, bytes)
        IN  Run(w3.w, <<(<<0>>), len, bytes>>, w3.r)

to_compact(bytes, sink) ==
    LET len == varu64_encode(U64Of(Len(bytes)))
        w1 == write_all(sink, <<0>>)
    IN  IF w1.r.kind # "Ok" THEN Run(w1.w, <<(<<0>>)>>, w1.r)
        ELSE LET w2 == encode_write(U64Of(Len(bytes)), w1.w)
        IN  IF w2.r.kind # "Ok" THEN Run(w2.w, <<(<<0>>), len>>, w2.r)
        ELSE LET w3 == write_all(w2.w, bytes)
        IN  Run(w3.w, <<(<<0>>), len, bytes>>, w3.r)

(***************************************************************************)
(* The buffers the decoders are called on.                                 *)
(***************************************************************************)
DataChars == {65, 66, 108, 61}

Datas == SeqsUpTo(DataChars, MaxDataLen) \cup
    { <<34>>, <<65, 34, 65, 65>>, <<255, 65, 65, 65>>, <<47, 119, 61, 61>>,
      <<65, 65, 65, 65, 108, 65, 61, 61>>, <<65, 65, 65, 65, 108, 66, 61, 61>>,
      <<65, 65, 61, 61, 65, 65, 65, 65>>, <<65, 65, 65, 65, 65, 65>> }

Mids == { <<>>, <<46>>, <<46, 98, 111>>, DotBox, DotBox \o <<34>>,
          DotBox \o <<120, 34>>, BoxSuffix \o <<34>>,
          <<46, 120>> \o BoxSuffix \o <<34>> }

TailChars == {34, 46, 255}

Tails == SeqsUpTo(TailChars, MaxTailLen)

LegacyInputs == {d \o m \o t : d \in Datas, m \in Mids, t \in Tails}

TypeFields == { <<>>, <<0>>, <<1>>, <<247>>, <<248>>, <<248, 0>>, <<248, 248>>,
                <<249, 0, 0>>, <<249, 1, 0>> }

LenFields == { <<>>, <<0>>, <<1>>, <<2>>, <<3>>, <<5>>, <<247>>, <<248>>,
               <<248, 2>>, <<248, 248>>, <<249, 1>>, <<249, 1, 0>>,
               <<251, 1, 0, 0, 0>>, <<252, 1, 0, 0, 0, 0>>,
               <<252, 1, 0, 0, 0, 1>>, <<252, 0, 0, 0, 0, 1>>,
               <<255, 1, 0, 0, 0, 0, 0, 0, 0>>,
               <<255, 0, 0, 0, 1, 0, 0, 0, 2>> }

PayloadBytes == {0, 148, 255}

Rests == SeqsUpTo(PayloadBytes, MaxRestLen)

Zeros(n) == [i \in 1..n |-> 0]

\* Payloads whose length needs a two- and a three-byte length field.
LongInputs ==
    { <<0, 248, 248>> \o Zeros(248), <<0, 248, 248>> \o Zeros(247),
      <<0, 248, 250>> \o Zeros(251), <<0, 249, 1, 0>> \o Zeros(256) \o <<7>> }

CompactInputs ==
    {t \o l \o r : t \in TypeFields, l \in LenFields, r \in Rests} \cup LongInputs

(***************************************************************************)
(* The state: a caller that decodes a buffer, encodes the Multibox it got  *)
(* into a sink, and decodes what was written followed by more bytes.       *)
(*   usizeBits  the width of usize on the build's target                   *)
(*   pc         the caller's position                                      *)
(*   op, arg, res   the last decoder call: its name, buffer and result     *)
(*   mb         the Multibox the caller holds                              *)
(*   enc, w, calls, wres   the last encoder call: its name, the sink after *)
(*              it, the chunks given to write_all, and its result          *)
(*   tail       the bytes the caller put after the encoder's output        *)
(***************************************************************************)
NoBox == [tag |-> "None", bytes |-> <<>>]

PrivateBox(bytes) == [tag |-> "PrivateBox", bytes |-> bytes]

Init ==
    /\ usizeBits \in {32, 64}
    /\ pc = "start"
    /\ op = "" /\ arg = <<>> /\ res = NoRes
    /\ mb = NoBox
    /\ enc = "" /\ w = Vec /\ calls = <<>> /\ wres = IoOk
    /\ tail = <<>>

\* A decoder's result, taken by the caller.
Decoded(name, s, t, r) ==
    /\ op' = name /\ arg' = s /\ tail' = t /\ res' = r
    /\ IF pc = "start"
       THEN /\ pc' = IF r.kind = "Ok" THEN "decoded"
                     ELSE IF r.kind = "Panic" THEN "aborted" ELSE "rejected"
            /\ mb' = IF r.kind = "Ok" THEN PrivateBox(r.box) ELSE mb
       ELSE /\ pc' = IF r.kind = "Panic" THEN "aborted" ELSE "redecoded"
            /\ mb' = mb
    /\ UNCHANGED <<usizeBits, enc, w, calls, wres>>

\* An encoder's run, taken by the caller.
Encoded(name, run) ==
    /\ enc' = name /\ w' = run.w /\ calls' = run.calls /\ wres' = run.r
    /\ pc' = IF run.r.kind = "Panic" THEN "aborted" ELSE "encoded"
    /\ op' = "" /\ arg' = <<>> /\ res' = NoRes /\ tail' = <<>>
    /\ UNCHANGED <<usizeBits, mb>>

LegacyArgs ==
    IF pc = "start" THEN {[s |-> i, t |-> <<>>] : i \in LegacyInputs}
    ELSE IF pc = "encoded" /\ wres.kind = "Ok"
    THEN {[s |-> w.buf \o <<QUOTE>> \o t, t |-> t] : t \in Tails}
    ELSE {}

CompactArgs ==
    IF pc = "start" THEN {[s |-> i, t |-> <<>>] : i \in CompactInputs}
    ELSE IF pc = "encoded" /\ wres.kind = "Ok"
    THEN {[s |-> w.buf \o t, t |-> t] : t \in Rests}
    ELSE {}

FromLegacy ==
    \E a \in LegacyArgs : Decoded("from_legacy", a.s, a.t, from_legacy(a.s))

FromCompact ==
    \E a \in CompactArgs :
        Decoded("from_compact", a.s, a.t, from_compact(a.s, usizeBits))

ToLegacy ==
    /\ pc = "decoded"
    /\ \E sink \in Sinks : Encoded("to_legacy", to_legacy(mb.bytes, sink))

ToLegacyVec ==
    /\ pc = "decoded"
    /\ Encoded("to_legacy_vec", to_legacy_vec(mb.bytes))

ToLegacyString ==
    /\ pc = "decoded"
    /\ \E run \in to_legacy_string(mb.bytes) : Encoded("to_legacy_string", run)

ToCompact ==
    /\ pc = "decoded"
    /\ \E sink \in Sinks : Encoded("to_compact", to_compact(mb.bytes, sink))

Next ==
    \/ FromLegacy
    \/ FromCompact
    \/ ToLegacy
    \/ ToLegacyVec
    \/ ToLegacyString
    \/ ToCompact

Spec == Init /\ [][Next]_vars

(***************************************************************************)
(* What the claims speak of, stated on the buffers themselves.             *)
(***************************************************************************)
HasByte(s, b) == \E i \in 1..Len(s) : s[i] = b

FirstIdx(s, b) ==
    CHOOSE i \in 1..Len(s) : s[i] = b /\ \A j \in 1..(i - 1) : s[j] # b

StartsWith(s, p) == Len(s) >= Len(p) /\ \A i \in 1..Len(p) : s[i] = p[i]

\* The base64 text of a legacy buffer: the bytes before its first '.'.
TextOf(s) == Take(s, FirstIdx(s, DOT) - 1)

AfterDot(s) == Drop(s, FirstIdx(s, DOT))

AfterBox(s) == Drop(AfterDot(s), 3)

SuffixAndQuotePass(s) ==
    HasByte(s, DOT) /\ StartsWith(AfterDot(s), BoxSuffix \o <<QUOTE>>)

LegacyEncoders == {"to_legacy", "to_legacy_vec", "to_legacy_string"}

(***************************************************************************)
(* C1. Legacy round trip: from_legacy on what to_legacy wrote for the      *)
(* Multibox m, then one quote byte, then any tail, returns Ok((m, tail)).  *)
(***************************************************************************)
C1_LegacyRoundTrip ==
    (op = "from_legacy" /\ enc \in LegacyEncoders /\ wres.kind = "Ok")
        => /\ arg = w.buf \o <<QUOTE>> \o tail
           /\ res = Ok(mb.bytes, tail)

C1_Witness ==
    /\ op = "from_legacy" /\ enc = "to_legacy"
    /\ mb.bytes = <<148>> /\ tail = <<34, 46>>
    /\ arg = <<108, 65, 61, 61, 46, 98, 111, 120, 34, 34, 46>>
    /\ res = Ok(<<148>>, <<34, 46>>)

(***************************************************************************)
(* C2. Compact round trip: from_compact on what to_compact wrote for m,    *)
(* then any tail, returns Ok((m, tail)); the empty payload is written as   *)
(* the two bytes 0x00 0x00.                                                *)
(***************************************************************************)
C2_CompactRoundTrip ==
    /\ (op = "from_compact" /\ enc = "to_compact" /\ wres.kind = "Ok")
          => /\ arg = w.buf \o tail
             /\ res = Ok(mb.bytes, tail)
    /\ (enc = "to_compact" /\ wres.kind = "Ok" /\ mb.bytes = <<>>)
          => w.buf = <<0, 0>>

C2_Witness ==
    /\ op = "from_compact" /\ enc = "to_compact"
    /\ mb.bytes = <<>> /\ tail = <<0, 148>>
    /\ arg = <<0, 0, 0, 148>>
    /\ res = Ok(<<>>, <<0, 148>>)

(***************************************************************************)
(* C3. Canonicality: when the base64 text of the buffer has a length that  *)
(* is not a multiple of 4, from_legacy returns an error; when the suffix   *)
(* and quote checks pass and the engine decodes the text, that error is    *)
(* NoncanonicPadding.                                                      *)
(***************************************************************************)
C3_Canonicality ==
    (op = "from_legacy" /\ HasByte(arg, DOT) /\ Len(TextOf(arg)) % 4 # 0)
        => /\ res.kind = "Err"
           /\ (SuffixAndQuotePass(arg) /\ base64_decode(TextOf(arg)).ok)
                 => res = Err("NoncanonicPadding", <<>>)

C3_Witness ==
    /\ op = "from_legacy"
    /\ arg = <<108, 65, 46, 98, 111, 120, 34>>
    /\ base64_decode(<<108, 65>>) = B64Ok(<<148>>)
    /\ res = Err("NoncanonicPadding", <<>>)

(***************************************************************************)
(* C4. Insufficient input: when the type field decodes to 0 and the length *)
(* field decodes to a value greater than the number of bytes after it,     *)
(* from_compact returns Err(NotEnoughInput), with no Multibox and no       *)
(* remainder.                                                              *)
(***************************************************************************)
DeclaredLength(s) == varu64_decode(varu64_decode(s).tail)

ZeroTypeThenLength(s) ==
    /\ varu64_decode(s).ok
    /\ varu64_decode(s).val = U64Of(0)
    /\ DeclaredLength(s).ok

C4_InsufficientInput ==
    (/\ op = "from_compact"
     /\ ZeroTypeThenLength(arg)
     /\ ToNat(DeclaredLength(arg).val) > Len(DeclaredLength(arg).tail))
        => res = Err("NotEnoughInput", <<>>)

\* The same on a target whose usize holds every u64.
C4_On64BitTargets == usizeBits = 64 => C4_InsufficientInput

(***************************************************************************)
(* C5. Only the non-zero compact type aborts: from_compact panics exactly  *)
(* when its first varint decodes to a non-zero value, whatever follows it; *)
(* otherwise it returns Ok or a DecodeCompactError; from_legacy and the    *)
(* four encoders always return.                                            *)
(***************************************************************************)
CompactErrors == {"InvalidType", "InvalidLength", "NotEnoughInput"}

LegacyErrors ==
    {"NoDot", "InvalidBase64", "NoncanonicPadding", "UnknownSuffix",
     "NoTerminatingQuote"}

LacksDot(s) == ~HasByte(s, DOT)

LacksBox(s) == HasByte(s, DOT) /\ ~StartsWith(AfterDot(s), BoxSuffix)

LacksQuote(s) ==
    /\ HasByte(s, DOT) /\ StartsWith(AfterDot(s), BoxSuffix)
    /\ ~HasByte(AfterBox(s), QUOTE)

HasGap(s) ==
    /\ HasByte(s, DOT) /\ StartsWith(AfterDot(s), BoxSuffix)
    /\ HasByte(AfterBox(s), QUOTE) /\ AfterBox(s)[1] # QUOTE

C6_LegacyStructuralErrors ==
    op = "from_legacy" =>
        /\ LacksDot(arg) => res = Err("NoDot", <<>>)
        /\ LacksBox(arg) => res = Err("UnknownSuffix", <<>>)
        /\ LacksQuote(arg) => res = Err("NoTerminatingQuote", <<>>)
        /\ HasGap(arg) => res = Err("UnknownSuffix", <<>>)
        /\ res.err \in {"InvalidBase64", "NoncanonicPadding"} =>
              SuffixAndQuotePass(arg)

\* Text that is not base64, and a byte between "box" and the quote.
C6_Witness ==
    /\ op = "from_legacy"
    /\ arg = <<34, 46, 98, 111, 120, 120, 34>>
    /\ ~base64_decode(<<34>>).ok
    /\ res = Err("UnknownSuffix", <<>>)

(***************************************************************************)
(* C7. The legacy encoders write the padded standard-alphabet base64 of    *)
(* the payload and then ".box": no quote byte, exactly one '.', ASCII      *)
(* only, so to_legacy_string's unchecked conversion is of valid text.      *)
(***************************************************************************)
StandardAlphabet == (65..90) \cup (97..122) \cup (48..57) \cup {43, 47}

Count(s, b) == Cardinality({i \in 1..Len(s) : s[i] = b})

PaddedBase64(text, n) ==
    /\ Len(text) = 4 * ((n + 2) \div 3)
    /\ LET pad == (3 - (n % 3)) % 3 IN
       /\ \A i \in 1..(Len(text) - pad) : text[i] \in StandardAlphabet
       /\ \A i \in (Len(text) - pad + 1)..Len(text) : text[i] = 61

C7_LegacyOutputForm ==
    (enc \in LegacyEncoders /\ wres.kind = "Ok") =>
        /\ w.buf = base64_encode(mb.bytes) \o DotBox
        /\ PaddedBase64(Take(w.buf, Len(w.buf) - 4), Len(mb.bytes))
        /\ base64_decode(Take(w.buf, Len(w.buf) - 4)) = B64Ok(mb.bytes)
        /\ Count(w.buf, QUOTE) = 0
        /\ Count(w.buf, DOT) = 1
        /\ IsAscii(w.buf)

C7_Witness ==
    /\ enc = "to_legacy_string" /\ wres.kind = "Ok"
    /\ mb.bytes = <<255, 255, 255>>
    /\ w.buf = <<47, 47, 47, 47, 46, 98, 111, 120>>

(***************************************************************************)
(* C8. from_legacy accepts only the canonical text and returns the exact   *)
(* remainder: an accepted buffer is what to_legacy writes for the decoded  *)
(* Multibox, one quote byte, and the returned rest.                        *)
(***************************************************************************)
C8_AcceptsOnlyCanonical ==
    (op = "from_legacy" /\ res.kind = "Ok") =>
        arg = to_legacy_vec(res.box).w.buf \o <<QUOTE>> \o res.rest

C8_Witness ==
    /\ op = "from_legacy" /\ pc = "decoded"
    /\ arg = <<108, 65, 61, 61, 46, 98, 111, 120, 34, 34, 46>>
    /\ res = Ok(<<148>>, <<34, 46>>)

(***************************************************************************)
(* C9. Compact error classification: InvalidType(e) exactly when the       *)
(* varint engine rejects the type field with e; InvalidLength(e) exactly   *)
(* when the type field decodes to 0 and the engine rejects the length      *)
(* field with e.                                                           *)
(***************************************************************************)
C9_CompactErrorClasses ==
    op = "from_compact" =>
        LET t == varu64_decode(arg)
            l == varu64_decode(t.tail)
        IN  /\ (res.kind = "Err" /\ res.err = "InvalidType") <=> ~t.ok
            /\ ~t.ok => res = Err("InvalidType", t.cause)
            /\ (res.kind = "Err" /\ res.err = "InvalidLength") <=>
                  (t.ok /\ t.val = U64Of(0) /\ ~l.ok)
            /\ (t.ok /\ t.val = U64Of(0) /\ ~l.ok) =>
                  res = Err("InvalidLength", l.cause)

\* Both fields are malformed: the type field is reported.
C9_Witness ==
    /\ op = "from_compact" /\ arg = <<248, 0, 248>>
    /\ ~varu64_decode(<<248>>).ok
    /\ res = Err("InvalidType", <<"NonCanonical", U64Of(0)>>)

(***************************************************************************)
(* C10. The encoders write in order (to_compact: 0x00, the varint of the   *)
(* length, the payload; to_legacy: the base64 text, ".box"), stop at the   *)
(* first write that fails and return its error, leaving what was written;  *)
(* they return Ok when no write fails.                                     *)
(***************************************************************************)
RECURSIVE Concat(_)
Concat(chunks) ==
    IF Len(chunks) = 0 THEN <<>> ELSE chunks[1] \o Concat(Drop(chunks, 1))

Planned ==
    IF enc = "to_compact"
    THEN << <<0>>, varu64_encode(U64Of(Len(mb.bytes))), mb.bytes >>
    ELSE << base64_encode(mb.bytes), DotBox >>

Overflows(k) == w.limited /\ Len(Concat(Take(Planned, k))) > w.cap

C10_WriteOrderAndFailure ==
    enc \in {"to_legacy", "to_compact"} =>
        /\ Len(calls) \in 1..Len(Planned)
        /\ calls = Take(Planned, Len(calls))
        /\ \A k \in 1..(Len(calls) - 1) : ~Overflows(k)
        /\ wres.kind = "Ok" =>
              /\ calls = Planned
              /\ ~Overflows(Len(Planned))
              /\ w.buf = Concat(Planned)
        /\ wres.kind # "Ok" =>
              /\ wres = IoErr(w.err)
              /\ Overflows(Len(calls))
              /\ w.buf = Take(Concat(calls), w.cap)

\* The second write fails: the type byte stays, the payload is never written.
C10_Witness ==
    /\ enc = "to_compact" /\ mb.bytes = <<148, 0>>
    /\ w.cap = 1 /\ w.limited
    /\ calls = << <<0>>, <<2>> >>
    /\ w.buf = <<0>>
    /\ wres = IoErr("BrokenPipe")
====
